---- MODULE Spec2Model ----
(***************************************************************************)
(* Academic Analytics Lite: the grade transformer (src/src/transform.py)   *)
(* and the cohort analyzer (src/src/analyze.py).                           *)
(*                                                                         *)
(* Number model: a Python number is an exact rational [t, n, d] in lowest  *)
(* terms with d > 0; Python None is the value None; a dict is a function   *)
(* whose DOMAIN is the set of keys present, so a missing key and a key     *)
(* holding None are different dicts that .get() reads alike.  The heap is  *)
(* a sequence of objects (dicts and lists) and an address is an index into *)
(* it; a list of records holds addresses, as a Python list holds           *)
(* references.  A function that can write to an object it was handed is an *)
(* operator from a heap to an outcome [heap, ret].  math.sqrt is handled   *)
(* exactly, by comparing squares.  The rounding error of binary floating   *)
(* point is not modelled: every result is the exact one.                   *)
(***************************************************************************)
EXTENDS Integers, Sequences, FiniteSets, TLC

\* pre:  the heap as the caller built it, just before the call
\* heap: the heap after the call
\* op:   the function called; arg: its arguments; ret: what it returned
VARIABLES pre, heap, op, arg, ret

vars == <<pre, heap, op, arg, ret>>

(***************************************************************************)
(* Values                                                                  *)
(***************************************************************************)
None == [t |-> "None"]

Str(s) == [t |-> "str", s |-> s]

Abs(i) == IF i < 0 THEN -i ELSE i

RECURSIVE GCD(_, _)
GCD(a, b) == IF b = 0 THEN a ELSE GCD(b, a % b)

Rat(n, d) ==
  LET s == IF d < 0 THEN -1 ELSE 1
      g == GCD(Abs(n), Abs(d))
  IN [t |-> "num", n |-> (s * n) \div g, d |-> (s * d) \div g]

Num(i) == Rat(i, 1)

RAdd(a, b) == Rat(a.n * b.d + b.n * a.d, a.d * b.d)

RSub(a, b) == Rat(a.n * b.d - b.n * a.d, a.d * b.d)

RMul(a, b) == Rat(a.n * b.n, a.d * b.d)

RDiv(a, b) == Rat(a.n * b.d, a.d * b.n)

RLt(a, b) == a.n * b.d < b.n * a.d

RLe(a, b) == a.n * b.d <= b.n * a.d

RGt(a, b) == RLt(b, a)

RGe(a, b) == RLe(b, a)

RECURSIVE RSum(_)
RSum(s) == IF s = <<>> THEN Num(0) ELSE RAdd(RSum(SubSeq(s, 1, Len(s) - 1)), s[Len(s)])

\* record.get(field): None for a missing key as for a key holding None
Get(record, field) == IF field \in DOMAIN record THEN record[field] ELSE None

\* record.get(field, default): the default only for a missing key
GetDefault(record, field, default) ==
  IF field \in DOMAIN record THEN record[field] ELSE default

\* d[key] = value on a dict
SetItem(d, key, value) == (key :> value) @@ d

Raise(exc) == [t |-> "raise", exc |-> exc]

List(items) == [t |-> "list", items |-> items]

\* heap[ref][key] = value
StoreItem(h, ref, key, value) == [h EXCEPT ![ref] = SetItem(h[ref], key, value)]

\* seq[i] with Python's indexing: 0-based, negative indices count from the end
PyIndex(seq, i) ==
  IF 0 <= i /\ i < Len(seq) THEN seq[i + 1]
  ELSE IF -Len(seq) <= i /\ i < 0 THEN seq[Len(seq) + i + 1]
  ELSE Raise("IndexError")

(***************************************************************************)
(* transform.py                                                            *)
(***************************************************************************)
quiz_fields == <<"quiz1", "quiz2", "quiz3", "quiz4", "quiz5">>

\* a quiz field that holds 0 is skipped as if it were missing
IsTruthyScore(value) == value # None /\ value # Num(0)

\* record.get(field) is not None
IsKnownScore(value) == value # None

RECURSIVE SelectKnown(_, _)
SelectKnown(record, fields) ==
  IF fields = <<>> THEN <<>>
  ELSE LET rest == SelectKnown(record, SubSeq(fields, 1, Len(fields) - 1))
           f == fields[Len(fields)]
       IN IF IsKnownScore(Get(record, f)) THEN Append(rest, Get(record, f)) ELSE rest

quiz_scores(record) == SelectKnown(record, quiz_fields)

compute_quiz_average(record) ==
  IF quiz_scores(record) = <<>> THEN None
  ELSE RDiv(RSum(quiz_scores(record)), Num(Len(quiz_scores(record))))

NominalWeight(weights) ==
  RAdd(RAdd(RAdd(weights["quizzes"], weights["midterm"]), weights["final"]),
       weights["attendance"])

\* 0.0 for a record without both exams
InsufficientDataZero == Num(0)

\* the result for a record without both exams
InsufficientData == None

\* the weighted score is returned as accumulated
NotNormalized(grade, total_weight, weights) == grade

\* the division by the weight in use made twice
NormalizedTwice(grade, total_weight, weights) ==
  RDiv(RMul(RDiv(grade, total_weight), NominalWeight(weights)), total_weight)

\* grade / total_weight * (the four weights added up)
Normalized(grade, total_weight, weights) ==
  RMul(RDiv(grade, total_weight), NominalWeight(weights))

\* 0.0 when no known component carries weight
ZeroWeightZero == Num(0)

\* the result when the weights of the known components do not exceed 0
ZeroWeight == None

\* the plain average of the known components, the weights left out
compute_final_grade_unweighted(record, weights) ==
  LET known == SelectSeq(<<compute_quiz_average(record), Get(record, "midterm"),
                           Get(record, "final"), Get(record, "attendance_percent")>>,
                         IsKnownScore)
  IN IF Get(record, "midterm") = None \/ Get(record, "final") = None
       THEN InsufficientData
       ELSE RDiv(RSum(known), Num(Len(known)))

compute_final_grade(record, weights) ==
  LET quiz_avg == compute_quiz_average(record)
      midterm == Get(record, "midterm")
      final == Get(record, "final")
      attendance == Get(record, "attendance_percent")
  IN IF midterm = None \/ final = None THEN InsufficientData
     ELSE
       LET g1 == IF quiz_avg # None THEN RMul(quiz_avg, weights["quizzes"]) ELSE Num(0)
           w1 == IF quiz_avg # None THEN weights["quizzes"] ELSE Num(0)
           g2 == RAdd(g1, RMul(midterm, weights["midterm"]))
           w2 == RAdd(w1, weights["midterm"])
           g3 == RAdd(g2, RMul(final, weights["final"]))
           w3 == RAdd(w2, weights["final"])
           grade == IF attendance # None
                      THEN RAdd(g3, RMul(attendance, weights["attendance"])) ELSE g3
           total_weight == IF attendance # None
                             THEN RAdd(w3, weights["attendance"]) ELSE w3
       IN IF RGt(total_weight, Num(0))
            THEN Normalized(grade, total_weight, weights)
            ELSE ZeroWeight

\* the loop test with the comparison turned round
BelowThreshold(numeric_grade, threshold) == RLe(numeric_grade, threshold)

\* the loop test with a strict comparison
ExceedsThreshold(numeric_grade, threshold) == RGt(numeric_grade, threshold)

\* the loop test of letter_grade
ReachesThreshold(numeric_grade, threshold) == RGe(numeric_grade, threshold)

\* sorted ascending and then reversed: items of equal key swap places
RECURSIVE SortedAscReversed(_)
SortedAscReversed(items) ==
  IF items = <<>> THEN <<>>
  ELSE LET rest == SortedAscReversed(SubSeq(items, 1, Len(items) - 1))
           x == items[Len(items)]
           k == Cardinality({i \in 1..Len(rest) : RGt(rest[i][2], x[2])})
       IN SubSeq(rest, 1, k) \o <<x>> \o SubSeq(rest, k + 1, Len(rest))

\* sorted(items, key=threshold, reverse=True): stable, so items of equal
\* threshold keep their dict (insertion) order
RECURSIVE SortedDesc(_)
SortedDesc(items) ==
  IF items = <<>> THEN <<>>
  ELSE LET rest == SortedDesc(SubSeq(items, 1, Len(items) - 1))
           x == items[Len(items)]
           k == Cardinality({i \in 1..Len(rest) : RGe(rest[i][2], x[2])})
       IN SubSeq(rest, 1, k) \o <<x>> \o SubSeq(rest, k + 1, Len(rest))

RECURSIVE FirstMatch(_, _)
FirstMatch(numeric_grade, sorted_grades) ==
  IF sorted_grades = <<>> THEN "F"
  ELSE IF ReachesThreshold(numeric_grade, sorted_grades[1][2])
         THEN sorted_grades[1][1]
         ELSE FirstMatch(numeric_grade, Tail(sorted_grades))

\* without the test for an unknown grade: no threshold matches, so 'F'
letter_grade_unguarded(numeric_grade, grade_scale) ==
  IF numeric_grade = None THEN "F"
  ELSE FirstMatch(numeric_grade, SortedDesc(grade_scale))

letter_grade(numeric_grade, grade_scale) ==
  IF numeric_grade = None THEN "N/A"
  ELSE FirstMatch(numeric_grade, SortedDesc(grade_scale))

\* enhanced = record: the same dict under a second name
dict_alias(h, ref) == [heap |-> h, ret |-> ref]

\* enhanced_records.insert(0, enhanced)
list_insert_first(list, item) == <<item>> \o list

\* enhanced_records.append(enhanced)
list_append(list, item) == Append(list, item)

\* record.copy(): a new dict with the same items
dict_copy(h, ref) == [heap |-> Append(h, h[ref]), ret |-> Len(h) + 1]

RECURSIVE EnhanceEach(_, _, _, _, _)
EnhanceEach(h, items, weights, grade_scale, enhanced_records) ==
  IF items = <<>>
    THEN [heap |-> Append(h, List(enhanced_records)), ret |-> Len(h) + 1]
    ELSE LET record == Head(items)
             c == dict_copy(h, record)
             enhanced == c.ret
             h1 == StoreItem(c.heap, enhanced, "quiz_average",
                             compute_quiz_average(c.heap[record]))
             final_grade == compute_final_grade(h1[record], weights)
             h2 == StoreItem(h1, enhanced, "final_grade", final_grade)
             h3 == StoreItem(h2, enhanced, "letter_grade",
                             Str(letter_grade(final_grade, grade_scale)))
         IN EnhanceEach(h3, Tail(items), weights, grade_scale,
                        list_append(enhanced_records, enhanced))

add_computed_fields(h, records, weights, grade_scale) ==
  EnhanceEach(h, h[records].items, weights, grade_scale, <<>>)

\* the guard written with truth tests, which a score of 0 fails
NoBaselineFalsy(midterm, final) ==
  (midterm = None \/ midterm = Num(0)) \/ (final = None \/ final = Num(0))

\* the guard of compute_improvement
NoBaseline(midterm, final) ==
  midterm = None \/ final = None \/ midterm = Num(0)

compute_improvement(record) ==
  LET midterm == Get(record, "midterm")
      final == Get(record, "final")
  IN IF NoBaseline(midterm, final) THEN None
     ELSE RMul(RDiv(RSub(final, midterm), midterm), Num(100))

(***************************************************************************)
(* analyze.py                                                              *)
(***************************************************************************)
\* ascending order of a sequence of numbers
RECURSIVE SortAsc(_)
SortAsc(seq) ==
  IF seq = <<>> THEN <<>>
  ELSE LET rest == SortAsc(SubSeq(seq, 1, Len(seq) - 1))
           x == seq[Len(seq)]
           k == Cardinality({i \in 1..Len(rest) : RLe(rest[i], x)})
       IN SubSeq(rest, 1, k) \o <<x>> \o SubSeq(rest, k + 1, Len(rest))

\* the values from the greatest to the least
sorted_descending(h, values) ==
  [heap |-> h,
   ret |-> [i \in 1..Len(h[values].items) |->
              SortAsc(h[values].items)[Len(h[values].items) + 1 - i]]]

\* the values taken in the order given
unsorted(h, values) == [heap |-> h, ret |-> h[values].items]

\* sorted(values): a new list, the argument is left as it is
sorted(h, values) == [heap |-> h, ret |-> SortAsc(h[values].items)]

\* round(x, 2): to the nearest hundredth, an exact tie to the even one
round2(x) ==
  LET m == 100 * x.n
      q == m \div x.d
      r == m % x.d
  IN IF 2 * r < x.d THEN Rat(q, 100)
     ELSE IF 2 * r > x.d THEN Rat(q + 1, 100)
     ELSE IF q % 2 = 0 THEN Rat(q, 100) ELSE Rat(q + 1, 100)

\* the largest k in lo..hi with k * k * d <= m (lo satisfies it)
RECURSIVE RootSearch(_, _, _, _)
RootSearch(m, d, lo, hi) ==
  IF lo = hi THEN lo
  ELSE LET mid == (lo + hi + 1) \div 2
       IN IF mid * mid * d <= m THEN RootSearch(m, d, mid, hi)
          ELSE RootSearch(m, d, lo, mid - 1)

\* round(math.sqrt(x), 2) for x >= 0
round2_sqrt(x) ==
  LET m == 10000 * x.n
      k == RootSearch(m, x.d, 0, 100 * (x.n \div x.d + 1))
      t == (2 * k + 1) * (2 * k + 1) * x.d
  IN IF 4 * m < t THEN Rat(k, 100)
     ELSE IF 4 * m > t THEN Rat(k + 1, 100)
     ELSE IF k % 2 = 0 THEN Rat(k, 100) ELSE Rat(k + 1, 100)

Min(a, b) == IF a < b THEN a ELSE b

Max(a, b) == IF a > b THEN a ELSE b

RECURSIVE SeqMin(_)
SeqMin(seq) ==
  IF Len(seq) = 1 THEN seq[1]
  ELSE LET m == SeqMin(Tail(seq)) IN IF RLt(m, seq[1]) THEN m ELSE seq[1]

RECURSIVE SeqMax(_)
SeqMax(seq) ==
  IF Len(seq) = 1 THEN seq[1]
  ELSE LET m == SeqMax(Tail(seq)) IN IF RGt(m, seq[1]) THEN m ELSE seq[1]

Mean(seq) == RDiv(RSum(seq), Num(Len(seq)))

\* the sample variance: divided by n - 1 (0 for a single value)
SampleVariance(seq) ==
  LET mean == Mean(seq)
      sq == [i \in 1..Len(seq) |-> RMul(RSub(seq[i], mean), RSub(seq[i], mean))]
  IN IF Len(seq) = 1 THEN Num(0) ELSE RDiv(RSum(sq), Num(Len(seq) - 1))

\* sum((x - mean) ** 2 for x in values) / n
Variance(seq) ==
  LET mean == Mean(seq)
      sq == [i \in 1..Len(seq) |-> RMul(RSub(seq[i], mean), RSub(seq[i], mean))]
  IN RDiv(RSum(sq), Num(Len(seq)))

\* the even case without the parentheses: a + b / 2
MedianUnparenthesized(sorted_values) ==
  LET n == Len(sorted_values)
  IN IF n % 2 = 0
       THEN RAdd(sorted_values[n \div 2], RDiv(sorted_values[n \div 2 + 1], Num(2)))
       ELSE sorted_values[n \div 2 + 1]

\* the odd case read one place before the middle (the first of a single value)
MedianBeforeMiddle(sorted_values) ==
  LET n == Len(sorted_values)
  IN IF n % 2 = 0
       THEN RDiv(RAdd(sorted_values[n \div 2], sorted_values[n \div 2 + 1]), Num(2))
       ELSE sorted_values[Max(n \div 2, 1)]

Median(sorted_values) ==
  LET n == Len(sorted_values)
  IN IF n % 2 = 0
       THEN RDiv(RAdd(sorted_values[n \div 2], sorted_values[n \div 2 + 1]), Num(2))
       ELSE sorted_values[n \div 2 + 1]

EmptyStats ==
  [count |-> 0, mean |-> None, median |-> None, std |-> None,
   min |-> None, max |-> None]

\* compute_stats on a list of numbers, the list's items given
StatsOf(values, sorted_values) ==
  [count |-> Len(values),
   mean |-> round2(Mean(values)),
   median |-> round2(Median(sorted_values)),
   std |-> round2_sqrt(Variance(values)),
   min |-> round2(SeqMin(values)),
   max |-> round2(SeqMax(values))]

compute_stats(h, values) ==
  IF h[values].items = <<>> THEN [heap |-> h, ret |-> EmptyStats]
  ELSE LET s == sorted(h, values)
       IN [heap |-> s.heap, ret |-> StatsOf(s.heap[values].items, s.ret)]

\* int(x): truncation toward zero
Trunc(x) == IF x.n >= 0 THEN x.n \div x.d ELSE -((-x.n) \div x.d)

compute_percentile(h, values, percentile) ==
  IF h[values].items = <<>> THEN [heap |-> h, ret |-> None]
  ELSE LET s == sorted(h, values)
           sorted_values == s.ret
           n == Len(sorted_values)
           rank == RMul(RDiv(percentile, Num(100)), Num(n - 1))
           lower == Trunc(rank)
           upper == Min(lower + 1, n - 1)
           weight == RSub(rank, Num(lower))
           lo == PyIndex(sorted_values, lower)
           hi == PyIndex(sorted_values, upper)
       IN [heap |-> s.heap,
           ret |-> IF lo.t = "raise" THEN lo
                   ELSE IF hi.t = "raise" THEN hi
                   ELSE RAdd(RMul(lo, RSub(Num(1), weight)), RMul(hi, weight))]

\* the bounds test with <= and >=: a value on a bound is taken too
IqrOutliersInclusive(values, q1, q3) ==
  LET iqr == RSub(q3, q1)
      lower_bound == RSub(q1, RMul(Rat(3, 2), iqr))
      upper_bound == RAdd(q3, RMul(Rat(3, 2), iqr))
      Outside(v) == RLe(v, lower_bound) \/ RGe(v, upper_bound)
  IN SelectSeq(values, Outside)

\* the bounds test run over the values in ascending order
IqrOutliersSorted(values, q1, q3) ==
  LET iqr == RSub(q3, q1)
      lower_bound == RSub(q1, RMul(Rat(3, 2), iqr))
      upper_bound == RAdd(q3, RMul(Rat(3, 2), iqr))
      Outside(v) == RLt(v, lower_bound) \/ RGt(v, upper_bound)
  IN SelectSeq(SortAsc(values), Outside)

IqrOutliers(values, q1, q3) ==
  LET iqr == RSub(q3, q1)
      lower_bound == RSub(q1, RMul(Rat(3, 2), iqr))
      upper_bound == RAdd(q3, RMul(Rat(3, 2), iqr))
      Outside(v) == RLt(v, lower_bound) \/ RGt(v, upper_bound)
  IN SelectSeq(values, Outside)

RECURSIVE IsPowerOfTwo(_)
IsPowerOfTwo(d) == d = 1 \/ (d % 2 = 0 /\ IsPowerOfTwo(d \div 2))

\* a float holds a binary fraction of this size exactly and rounds any other
\* number
Representable(x) == IsPowerOfTwo(x.d)

\* the integer part of the square root of m >= 0
RECURSIVE ISqrt(_)
ISqrt(m) ==
  IF m < 2 THEN m
  ELSE LET r == 2 * ISqrt(m \div 4)
       IN IF (r + 1) * (r + 1) <= m THEN r + 1 ELSE r

IsSquare(m) == ISqrt(m) * ISqrt(m) = m

\* mean, variance and std are floats: they are the exact numbers when the
\* mean and the variance are binary fractions and the variance is a square
ZscoreIsExact(values) ==
  LET mean == Mean(values)
      variance == Variance(values)
  IN /\ Representable(mean)
     /\ Representable(variance)
     /\ IsSquare(variance.n)
     /\ IsSquare(variance.d)

\* the values lying exactly 2 standard deviations from the mean while mean,
\* variance or std is rounded: the rounding decides on which side of 2 the
\* float abs((v - mean) / std) falls
RoundedTies(values) ==
  IF Len(values) < 4 THEN {}
  ELSE LET mean == Mean(values)
           variance == Variance(values)
           OnTwo(v) == RMul(RSub(v, mean), RSub(v, mean)) = RMul(Num(4), variance)
       IN IF variance = Num(0) \/ ZscoreIsExact(values) THEN {}
          ELSE {values[i] : i \in {j \in DOMAIN values : OnTwo(values[j])}}

\* abs((v - mean) / std) > 2 with std = sqrt(variance) > 0, compared by squares;
\* raised holds the values of RoundedTies whose quotient is rounded above 2
ZscoreOutliers(values, raised) ==
  LET mean == Mean(values)
      variance == Variance(values)
      Far(v) == \/ RGt(RMul(RSub(v, mean), RSub(v, mean)), RMul(Num(4), variance))
                \/ v \in raised
  IN IF variance = Num(0) THEN <<>> ELSE SelectSeq(values, Far)

find_outliers(h, values, method, raised) ==
  IF Len(h[values].items) < 4 THEN [heap |-> h, ret |-> <<>>]
  ELSE IF method = "iqr"
    THEN LET q1 == compute_percentile(h, values, Num(25))
             q3 == compute_percentile(q1.heap, values, Num(75))
         IN [heap |-> q3.heap,
             ret |-> IF q1.ret = None \/ q3.ret = None THEN <<>>
                     ELSE IqrOutliers(q3.heap[values].items, q1.ret, q3.ret)]
  ELSE IF method = "zscore"
    THEN [heap |-> h, ret |-> ZscoreOutliers(h[values].items, raised)]
  ELSE [heap |-> h, ret |-> <<>>]

EmptyDistribution ==
  [l \in {"A", "B", "C", "D", "F", "N/A"} |-> 0]

\* a letter the mapping does not have is counted as a failing grade
DistributionKeyFailing(letter, distribution) ==
  IF letter.t = "str" /\ letter.s \in DOMAIN distribution THEN letter.s ELSE "F"

\* the key counted for a record: its letter if the mapping has it, else N/A
DistributionKey(letter, distribution) ==
  IF letter.t = "str" /\ letter.s \in DOMAIN distribution THEN letter.s ELSE "N/A"

\* distribution[key] = 1
CountedOnce(distribution, key) == [distribution EXCEPT ![key] = 1]

\* distribution[key] += 1
Counted(distribution, key) == [distribution EXCEPT ![key] = @ + 1]

RECURSIVE CountEach(_, _, _)
CountEach(h, items, distribution) ==
  IF items = <<>> THEN distribution
  ELSE LET letter == GetDefault(h[Head(items)], "letter_grade", Str("N/A"))
           key == DistributionKey(letter, distribution)
       IN CountEach(h, Tail(items), Counted(distribution, key))

grade_distribution(h, records) ==
  [heap |-> h, ret |-> CountEach(h, h[records].items, EmptyDistribution)]

\* the test with <=, which takes a grade on the threshold too
AtOrBelowCutoff(final_grade, threshold) ==
  final_grade # None /\ RLe(final_grade, threshold)

\* final_grade is not None and final_grade < threshold
BelowCutoff(final_grade, threshold) ==
  final_grade # None /\ RLt(final_grade, threshold)

identify_at_risk(h, records, threshold) ==
  LET AtRisk(record) == BelowCutoff(Get(h[record], "final_grade"), threshold)
  IN [heap |-> h, ret |-> SelectSeq(h[records].items, AtRisk)]

RECURSIVE GroupEach(_, _, _)
GroupEach(h, items, sections) ==
  IF items = <<>> THEN sections
  ELSE LET record == h[Head(items)]
           section == GetDefault(record, "section", Str("Unknown"))
           s1 == IF section \notin DOMAIN sections
                   THEN (section :> <<>>) @@ sections ELSE sections
           final_grade == Get(record, "final_grade")
           s2 == IF final_grade # None
                   THEN [s1 EXCEPT ![section] = Append(@, final_grade)] ELSE s1
       IN GroupEach(h, Tail(items), s2)

\* only the groups that hold a grade get an entry
section_comparison_graded(h, records) ==
  LET sections == GroupEach(h, h[records].items, <<>>)
  IN [heap |-> h,
      ret |-> [section \in {k \in DOMAIN sections : sections[k] # <<>>} |->
                 compute_stats(Append(h, List(sections[section])), Len(h) + 1).ret]]

section_comparison(h, records) ==
  LET sections == GroupEach(h, h[records].items, <<>>)
  IN [heap |-> h,
      ret |-> [section \in DOMAIN sections |->
                 compute_stats(Append(h, List(sections[section])), Len(h) + 1).ret]]

\* seq[:n]
SliceTo(seq, n) ==
  IF n >= 0 THEN SubSeq(seq, 1, Min(n, Len(seq)))
  ELSE SubSeq(seq, 1, Max(Len(seq) + n, 0))

top_performers(h, records, n) ==
  LET Valid(r) == Get(h[r], "final_grade") # None
      valid_records == SelectSeq(h[records].items, Valid)
      keyed == [i \in 1..Len(valid_records) |->
                  <<valid_records[i], h[valid_records[i]]["final_grade"]>>]
      sorted_keyed == SortedDesc(keyed)
      sorted_records == [i \in 1..Len(sorted_keyed) |-> sorted_keyed[i][1]]
  IN [heap |-> h, ret |-> SliceTo(sorted_records, n)]

(***************************************************************************)
(* Inputs                                                                  *)
(***************************************************************************)
\* a field the generated dict does not carry
Absent == [t |-> "absent"]

\* the dict with the fields of f that are not Absent
Dict(f) == [k \in {x \in DOMAIN f : f[x] # Absent} |-> f[k]]

\* what ingestion can leave in each score field: a number of [0,100], None,
\* or (after a rejected row) no key at all
ScoreRecords ==
  {Dict(f) : f \in
     [quiz1 : {Absent, None, Num(0), Num(80)},
      quiz2 : {None, Num(0), Num(85)},
      quiz3 : {None, Num(90)},
      quiz4 : {None, Num(85)},
      quiz5 : {Absent, Num(80)},
      midterm : {Absent, None, Num(0), Num(70), Num(90)},
      final : {None, Num(0), Num(84), Num(81)},
      attendance_percent : {Absent, None, Num(95)}]}

\* records at the ends of the score range
ExtremeRecords ==
  {Dict(f) : f \in
     [quiz1 : {None, Num(100)},
      quiz2 : {None, Num(100)},
      quiz3 : {None},
      quiz4 : {None},
      quiz5 : {None},
      midterm : {Num(0), Num(100)},
      final : {Num(0), Num(100)},
      attendance_percent : {None, Num(0), Num(100)}]}

Weights(q, m, f, a) == [quizzes |-> q, midterm |-> m, final |-> f, attendance |-> a]

WeightChoices ==
  {Weights(Rat(1, 5), Rat(3, 10), Rat(2, 5), Rat(1, 10)),
   Weights(Num(0), Rat(1, 2), Rat(1, 2), Num(0)),
   Weights(Num(1), Num(1), Num(1), Num(1)),
   Weights(Num(0), Num(0), Num(0), Num(1)),
   Weights(Num(0), Num(0), Num(0), Num(0))}

\* grade scales as the ordered mappings a JSON object gives
ScaleChoices ==
  {<< <<"A", Num(90)>>, <<"B", Num(80)>>, <<"C", Num(70)>>, <<"D", Num(60)>>, <<"F", Num(0)>> >>,
   << <<"F", Num(0)>>, <<"D", Num(60)>>, <<"C", Num(70)>>, <<"B", Num(80)>>, <<"A", Num(90)>> >>,
   << <<"A", Num(90)>>, <<"C", Num(70)>>, <<"F", Num(0)>> >>,
   << <<"A", Num(90)>>, <<"B", Num(90)>>, <<"C", Num(70)>>, <<"F", Num(0)>> >>,
   << <<"B", Num(80)>>, <<"A", Num(80)>>, <<"D", Num(60)>>, <<"F", Num(60)>> >>,
   << <<"A", Num(90)>>, <<"B", Num(80)>> >>,
   << <<"A", Num(90)>>, <<"F", Num(60)>>, <<"D", Num(50)>> >>,
   << >>}

GradeChoices ==
  {None} \cup {Num(g) : g \in {0, 40, 55, 59, 60, 65, 70, 75, 80, 85, 90, 95, 100}}
         \cup {Rat(179, 2), Rat(1747, 20)}

\* the longest list of numbers handed to the analyzer
MaxLen == 4

\* the largest cohort
MaxRecords == 3

ValueChoices == {Num(0), Rat(1, 8), Num(1), Num(3), Num(4)}

ValueLists == UNION {[1..n -> ValueChoices] : n \in 0..MaxLen}

\* the length of the lists that carry outliers
SpikeLen == 11

\* a cluster of equal values with up to three values far off it, high or low,
\* anywhere in the list
SpikeLists ==
  {[i \in 1..SpikeLen |->
      IF i = a THEN x ELSE IF i = b THEN y ELSE IF i = c THEN z ELSE Num(1)] :
     a \in 0..SpikeLen, b \in 0..SpikeLen, c \in 0..SpikeLen,
     x \in {Num(0), Num(4)}, y \in {Num(0), Num(4)}, z \in {Num(0), Num(4)}}

SampleLen == 6

SampleChoices == {Num(31), Num(33), Num(38), Num(43)}

\* small samples of whole scores, from the size the outlier search starts at
SampleLists == UNION {[1..n -> SampleChoices] : n \in 4..SampleLen}

PercentileChoices == {Num(0), Num(25), Num(50), Num(75), Num(100), Num(40), Num(-50), Num(150)}

MethodChoices == {"iqr", "zscore", "mad"}

Student(id, section, q1, q2, q3, q4, q5, midterm, final, attendance) ==
  Dict([student_id |-> Str(id), section |-> section,
        quiz1 |-> q1, quiz2 |-> q2, quiz3 |-> q3, quiz4 |-> q4, quiz5 |-> q5,
        midterm |-> midterm, final |-> final, attendance_percent |-> attendance])

Graded(id, section, final_grade, letter) ==
  Dict([student_id |-> Str(id), section |-> section,
        final_grade |-> final_grade, letter_grade |-> letter])

\* records as ingestion leaves them (the fourth from a row rejected at quiz2)
\* and records as the tests build them
CohortRecords ==
  {Student("s1", Str("A"), Num(80), Num(85), Num(90), Num(85), Num(80),
           Num(85), Num(88), Num(95)),
   Student("s2", Str("B"), None, None, None, None, None, Num(70), Num(84), None),
   Student("s3", Str("A"), Num(80), None, None, None, None, None, Num(88), Num(95)),
   Student("s4", Str(""), Num(0), None, Absent, Absent, Absent, Absent, Absent, Absent),
   Graded("1", Str("A"), Num(55), Str("F")),
   Graded("2", None, Num(75), Str("C")),
   Graded("3", Absent, None, Absent),
   Graded("4", Str("B"), Num(75), Str("E"))}

RecordLists == UNION {[1..n -> CohortRecords] : n \in 0..MaxRecords}

\* the cohorts of the analyzer's tests: five letters, and four grades
TestRecordLists ==
  {<<[letter_grade |-> Str("A")], [letter_grade |-> Str("A")],
     [letter_grade |-> Str("B")], [letter_grade |-> Str("C")],
     [letter_grade |-> Str("F")]>>,
   <<[student_id |-> Str("1"), final_grade |-> Num(55)],
     [student_id |-> Str("2"), final_grade |-> Num(75)],
     [student_id |-> Str("3"), final_grade |-> Num(58)],
     [student_id |-> Str("4"), final_grade |-> Num(85)]>>}

CohortWeights ==
  {Weights(Rat(1, 5), Rat(3, 10), Rat(2, 5), Rat(1, 10)),
   Weights(Num(0), Rat(1, 2), Rat(1, 2), Num(0)),
   Weights(Num(0), Num(0), Num(0), Num(0))}

CohortScale ==
  << <<"A", Num(90)>>, <<"B", Num(80)>>, <<"C", Num(70)>>, <<"D", Num(60)>>, <<"F", Num(0)>> >>

ThresholdChoices == {Num(60), Num(75), Num(80)}

TopChoices == {0, 1, 2, 10}

(***************************************************************************)
(* The calls.  A behaviour starts with the arguments a caller has built    *)
(* (arg, and in pre = heap the objects it passes by reference); a call     *)
(* leaves the function's name in op, its result in ret and the heap as the *)
(* function left it.                                                       *)
(***************************************************************************)
Args(a) ==
  /\ pre = <<>>
  /\ heap = <<>>
  /\ op = "none"
  /\ arg = a
  /\ ret = None

\* a call of a function that only reads the values it is given
Returns(name, result) ==
  /\ op = "none"
  /\ op' = name
  /\ ret' = result
  /\ UNCHANGED <<pre, heap, arg>>

InitTransform ==
  \/ \E record \in ScoreRecords \cup ExtremeRecords, weights \in WeightChoices :
       Args([record |-> record, weights |-> weights])
  \/ \E numeric_grade \in GradeChoices, grade_scale \in ScaleChoices :
       Args([numeric_grade |-> numeric_grade, grade_scale |-> grade_scale])

CallComputeQuizAverage ==
  /\ "record" \in DOMAIN arg
  /\ Returns("compute_quiz_average", compute_quiz_average(arg.record))

CallComputeFinalGrade ==
  /\ "record" \in DOMAIN arg
  /\ Returns("compute_final_grade", compute_final_grade(arg.record, arg.weights))

CallLetterGrade ==
  /\ "numeric_grade" \in DOMAIN arg
  /\ Returns("letter_grade", letter_grade(arg.numeric_grade, arg.grade_scale))

CallComputeImprovement ==
  /\ "record" \in DOMAIN arg
  /\ Returns("compute_improvement", compute_improvement(arg.record))

NextTransform ==
  \/ CallComputeQuizAverage
  \/ CallComputeFinalGrade
  \/ CallLetterGrade
  \/ CallComputeImprovement

SpecTransform == InitTransform /\ [][NextTransform]_vars

\* the caller's objects h, handed over by reference
ArgsOnHeap(h, a) ==
  /\ pre = h
  /\ heap = h
  /\ op = "none"
  /\ arg = a
  /\ ret = None

\* a call of a function that is handed objects of the heap
Call(name, outcome) ==
  /\ op = "none"
  /\ op' = name
  /\ heap' = outcome.heap
  /\ ret' = outcome.ret
  /\ UNCHANGED <<pre, arg>>

\* the same, the call's further arguments noted in arg
CallWith(name, more, outcome) ==
  /\ op = "none"
  /\ op' = name
  /\ heap' = outcome.heap
  /\ ret' = outcome.ret
  /\ arg' = more @@ arg
  /\ UNCHANGED pre

InitStats ==
  \/ \E values \in ValueLists :
       \/ ArgsOnHeap(<<List(values)>>, [values |-> 1])
       \/ \E percentile \in PercentileChoices :
            ArgsOnHeap(<<List(values)>>, [values |-> 1, percentile |-> percentile])
       \/ \E method \in MethodChoices :
            ArgsOnHeap(<<List(values)>>, [values |-> 1, method |-> method])
  \/ \E values \in SpikeLists \cup SampleLists, method \in MethodChoices :
       ArgsOnHeap(<<List(values)>>, [values |-> 1, method |-> method])

CallComputeStats ==
  /\ DOMAIN arg = {"values"}
  /\ Call("compute_stats", compute_stats(heap, arg.values))

CallComputePercentile ==
  /\ "percentile" \in DOMAIN arg
  /\ Call("compute_percentile", compute_percentile(heap, arg.values, arg.percentile))

CallFindOutliers ==
  /\ "method" \in DOMAIN arg
  /\ \E raised \in SUBSET RoundedTies(heap[arg.values].items) :
       Call("find_outliers", find_outliers(heap, arg.values, arg.method, raised))

NextStats ==
  \/ CallComputeStats
  \/ CallComputePercentile
  \/ CallFindOutliers

SpecStats == InitStats /\ [][NextStats]_vars

\* the dicts at addresses 1..n and the list of them at address n + 1
InitCohort ==
  \E rs \in RecordLists \cup TestRecordLists :
    ArgsOnHeap(Append(rs, List([i \in 1..Len(rs) |-> i])),
               [records |-> Len(rs) + 1, enriched |-> FALSE, improved |-> FALSE])

CallAddComputedFields ==
  /\ "records" \in DOMAIN arg
  /\ ~arg.enriched
  /\ \E weights \in CohortWeights :
       CallWith("add_computed_fields",
                [weights |-> weights, grade_scale |-> CohortScale],
                add_computed_fields(heap, arg.records, weights, CohortScale))

\* records = add_computed_fields(records, weights, grade_scale): the caller
\* goes on with the enriched list
Rebind ==
  /\ op = "add_computed_fields"
  /\ op' = "none"
  /\ pre' = heap
  /\ arg' = [records |-> ret, enriched |-> TRUE, improved |-> FALSE]
  /\ ret' = None
  /\ UNCHANGED heap

\* the improvement set on a copy of the record, which the list does not hold
StoreImprovementOnCopy(h, ref) ==
  Append(h, SetItem(h[ref], "improvement", compute_improvement(h[ref])))

\* record['improvement'] = compute_improvement(record)
StoreImprovement(h, ref) ==
  StoreItem(h, ref, "improvement", compute_improvement(h[ref]))

RECURSIVE ImproveEach(_, _)
ImproveEach(h, items) ==
  IF items = <<>> THEN h
  ELSE ImproveEach(StoreImprovement(h, Head(items)), Tail(items))

\* for record in records: record['improvement'] = compute_improvement(record):
\* the caller writes to the enriched records, which are its own
AddImprovement ==
  /\ op = "none"
  /\ "records" \in DOMAIN arg
  /\ arg.enriched
  /\ ~arg.improved
  /\ heap' = ImproveEach(heap, heap[arg.records].items)
  /\ pre' = heap'
  /\ arg' = [arg EXCEPT !.improved = TRUE]
  /\ UNCHANGED <<op, ret>>

CallGradeDistribution ==
  /\ "records" \in DOMAIN arg
  /\ Call("grade_distribution", grade_distribution(heap, arg.records))

CallIdentifyAtRisk ==
  /\ "records" \in DOMAIN arg
  /\ \E threshold \in ThresholdChoices :
       CallWith("identify_at_risk", [threshold |-> threshold],
                identify_at_risk(heap, arg.records, threshold))

CallSectionComparison ==
  /\ "records" \in DOMAIN arg
  /\ Call("section_comparison", section_comparison(heap, arg.records))

CallTopPerformers ==
  /\ "records" \in DOMAIN arg
  /\ \E n \in TopChoices :
       CallWith("top_performers", [n |-> n], top_performers(heap, arg.records, n))

NextCohort ==
  \/ CallAddComputedFields
  \/ Rebind
  \/ AddImprovement
  \/ CallGradeDistribution
  \/ CallIdentifyAtRisk
  \/ CallSectionComparison
  \/ CallTopPerformers

SpecCohort == InitCohort /\ [][NextCohort]_vars

\* the analyzer and the enrichment together
InitAnalysis == InitStats \/ InitCohort

NextAnalysis == NextStats \/ NextCohort

SpecAnalysis == InitAnalysis /\ [][NextAnalysis]_vars

Init == InitTransform \/ InitStats \/ InitCohort

Next == NextTransform \/ NextStats \/ NextCohort

Spec == Init /\ [][Next]_vars

(***************************************************************************)
(* Properties of the grade transformer                                     *)
(***************************************************************************)
RECURSIVE SetSum(_, _)
SetSum(S, f) ==
  IF S = {} THEN Num(0)
  ELSE LET x == CHOOSE y \in S : TRUE IN RAdd(f[x], SetSum(S \ {x}, f))

\* C1: compute_final_grade returns unknown for every record in which midterm
\* or final is unknown, whatever the quizzes, attendance and weights are.
C1_NoExamNoGrade ==
  (/\ op = "compute_final_grade"
   /\ Get(arg.record, "midterm") = None \/ Get(arg.record, "final") = None)
  => ret = None

\* the test's case: a quiz and attendance known, positive weights, no midterm
C1_Witness ==
  /\ op = "compute_final_grade"
  /\ Get(arg.record, "midterm") = None
  /\ Get(arg.record, "final") = Num(84)
  /\ Get(arg.record, "quiz1") = Num(80)
  /\ Get(arg.record, "attendance_percent") = Num(95)
  /\ arg.weights = Weights(Rat(1, 5), Rat(3, 10), Rat(2, 5), Rat(1, 10))
  /\ ret = None

\* the components of a record: value and the weight's name
ComponentValue(record) ==
  [quizzes |-> compute_quiz_average(record),
   midterm |-> Get(record, "midterm"),
   final |-> Get(record, "final"),
   attendance |-> Get(record, "attendance_percent")]

KnownComponents(record) ==
  {c \in DOMAIN ComponentValue(record) : ComponentValue(record)[c] # None}

KnownWeight(record, weights) == SetSum(KnownComponents(record), weights)

KnownScore(record, weights) ==
  SetSum(KnownComponents(record),
         [c \in KnownComponents(record) |-> RMul(ComponentValue(record)[c], weights[c])])

AllWeight(weights) == SetSum(DOMAIN weights, weights)

\* C2: with midterm and final known and a positive weight sum over the known
\* components, the result is (sum of component x weight over the known
\* components) / (sum of their weights) x (sum of the four weights); with all
\* four components known that is the plain weighted sum.
C2_Renormalized ==
  (/\ op = "compute_final_grade"
   /\ Get(arg.record, "midterm") # None
   /\ Get(arg.record, "final") # None
   /\ RGt(KnownWeight(arg.record, arg.weights), Num(0)))
  => /\ ret # None
     /\ RMul(ret, KnownWeight(arg.record, arg.weights))
          = RMul(KnownScore(arg.record, arg.weights), AllWeight(arg.weights))
     /\ Cardinality(KnownComponents(arg.record)) = 4
          => ret = KnownScore(arg.record, arg.weights)

\* no quiz and no attendance: (0.3 x 70 + 0.4 x 84) / 0.7 x 1 = 78
C2_Witness ==
  /\ op = "compute_final_grade"
  /\ KnownComponents(arg.record) = {"midterm", "final"}
  /\ Get(arg.record, "midterm") = Num(70)
  /\ Get(arg.record, "final") = Num(84)
  /\ arg.weights = Weights(Rat(1, 5), Rat(3, 10), Rat(2, 5), Rat(1, 10))
  /\ ret = Num(78)

Letters(grade_scale) == {grade_scale[i][1] : i \in 1..Len(grade_scale)}

\* the threshold a scale gives a letter
Threshold(grade_scale, letter) ==
  (CHOOSE item \in {grade_scale[i] : i \in 1..Len(grade_scale)} : item[1] = letter)[2]

Reached(grade_scale, g) ==
  {i \in 1..Len(grade_scale) : RLe(grade_scale[i][2], g)}

\* C3: letter_grade gives N/A for an unknown grade, F when no threshold of
\* the scale is <= the grade, and otherwise a letter of the scale whose
\* threshold is the greatest threshold that is <= the grade.
C3_GreatestLowerBound ==
  op = "letter_grade" =>
    LET g == arg.numeric_grade
        scale == arg.grade_scale
    IN IF g = None THEN ret = "N/A"
       ELSE IF Reached(scale, g) = {} THEN ret = "F"
       ELSE \E i \in Reached(scale, g) :
              /\ ret = scale[i][1]
              /\ \A j \in Reached(scale, g) : RLe(scale[j][2], scale[i][2])

\* a grade on a threshold that two letters share, above a gap
C3_Witness ==
  /\ op = "letter_grade"
  /\ arg.numeric_grade = Num(90)
  /\ arg.grade_scale =
       << <<"A", Num(90)>>, <<"B", Num(90)>>, <<"C", Num(70)>>, <<"F", Num(0)>> >>
  /\ ret = "A"

\* the thresholds of the letters of g1 >= g2 are in the same order, where
\* both letters have a threshold in the scale
MonotonicOn(grade_scale, g1, letter1) ==
  \A g2 \in GradeChoices \ {None} :
    LET letter2 == letter_grade(g2, grade_scale)
    IN (/\ RLe(g2, g1)
        /\ letter1 \in Letters(grade_scale)
        /\ letter2 \in Letters(grade_scale))
       => RGe(Threshold(grade_scale, letter1), Threshold(grade_scale, letter2))

\* C4 as stated: for any scale and known grades g1 >= g2, the threshold of
\* the letter of g1 is >= the threshold of the letter of g2.
C4_MonotonicAnyScale ==
  (op = "letter_grade" /\ arg.numeric_grade # None)
  => MonotonicOn(arg.grade_scale, arg.numeric_grade, ret)

\* F, the letter given when no threshold is reached, has the lowest threshold
FallbackIsLowest(grade_scale) ==
  \A i, j \in 1..Len(grade_scale) :
    grade_scale[i][1] = "F" => RLe(grade_scale[i][2], grade_scale[j][2])

\* C4, amended: the same for every scale in which F, when the scale has it,
\* carries the lowest threshold.
C4_MonotonicWellFormed ==
  (op = "letter_grade" /\ arg.numeric_grade # None /\ FallbackIsLowest(arg.grade_scale))
  => MonotonicOn(arg.grade_scale, arg.numeric_grade, ret)

C4_Witness ==
  /\ op = "letter_grade"
  /\ arg.grade_scale =
       << <<"A", Num(90)>>, <<"B", Num(80)>>, <<"C", Num(70)>>, <<"D", Num(60)>>, <<"F", Num(0)>> >>
  /\ arg.numeric_grade = Num(85)
  /\ ret = "B"
  /\ letter_grade(Num(95), arg.grade_scale) = "A"
  /\ letter_grade(Num(75), arg.grade_scale) = "C"
  /\ letter_grade(Num(65), arg.grade_scale) = "D"
  /\ letter_grade(Num(55), arg.grade_scale) = "F"

\* C5: compute_improvement is unknown exactly when midterm or final is
\* unknown or midterm is 0, and otherwise (final - midterm) / midterm x 100:
\* 70 -> 84 gives 20, 90 -> 81 gives -10, a final of 0 gives -100.
C5_Improvement ==
  op = "compute_improvement" =>
    LET midterm == Get(arg.record, "midterm")
        final == Get(arg.record, "final")
    IN IF midterm = None \/ final = None THEN ret = None
       ELSE IF midterm.n = 0 THEN ret = None
       ELSE /\ ret # None
            /\ RMul(ret, midterm) = RMul(RSub(final, midterm), Num(100))
            /\ (midterm = Num(70) /\ final = Num(84)) => ret = Num(20)
            /\ (midterm = Num(90) /\ final = Num(81)) => ret = Num(-10)
            /\ final = Num(0) => ret = Num(-100)

C5_Witness ==
  /\ op = "compute_improvement"
  /\ Get(arg.record, "midterm") = Num(90)
  /\ Get(arg.record, "final") = Num(0)
  /\ ret = Num(-100)

\* C8: compute_quiz_average is the arithmetic mean of exactly the known ones
\* of quiz1..quiz5, a score of 0 included, and unknown when none is known.
C8_QuizAverage ==
  op = "compute_quiz_average" =>
    LET known == {f \in {"quiz1", "quiz2", "quiz3", "quiz4", "quiz5"} :
                    Get(arg.record, f) # None}
    IN IF known = {} THEN ret = None
       ELSE /\ ret # None
            /\ RMul(ret, Num(Cardinality(known)))
                 = SetSum(known, [f \in known |-> arg.record[f]])

\* quiz2 = 0 counts: (0 + 90 + 80) / 3
C8_Witness ==
  /\ op = "compute_quiz_average"
  /\ Get(arg.record, "quiz1") = None
  /\ Get(arg.record, "quiz2") = Num(0)
  /\ Get(arg.record, "quiz3") = Num(90)
  /\ Get(arg.record, "quiz4") = None
  /\ Get(arg.record, "quiz5") = Num(80)
  /\ ret = Rat(170, 3)

(***************************************************************************)
(* Properties of the enrichment and of the analyzer                        *)
(***************************************************************************)
FrameOps ==
  {"add_computed_fields", "compute_stats", "compute_percentile", "find_outliers",
   "grade_distribution", "identify_at_risk", "section_comparison", "top_performers"}

\* C6: no transformer or analyzer operation changes the collection or a
\* record handed to it: every object the caller had is, after the call, what
\* it was before (a list its items in their order, a dict its keys and values).
C6_InputsUntouched ==
  op \in FrameOps =>
    /\ Len(heap) >= Len(pre)
    /\ \A a \in 1..Len(pre) : heap[a] = pre[a]

\* an enrichment of two records has run and has built its three new objects
C6_Witness ==
  /\ op = "add_computed_fields"
  /\ Len(pre[arg.records].items) = 2
  /\ Len(heap) = Len(pre) + 3
  /\ "final_grade" \in DOMAIN heap[heap[ret].items[1]]
  /\ "final_grade" \notin DOMAIN pre[pre[arg.records].items[1]]

DerivedFields == {"quiz_average", "final_grade", "letter_grade"}

\* C7: add_computed_fields returns one enriched record per input record, in
\* the input order; the i-th carries the i-th input's own fields unchanged and
\* its quiz_average, final_grade and letter_grade are those of the i-th input
\* record alone.
C7_RecordLocal ==
  op = "add_computed_fields" =>
    LET given == pre[arg.records].items
        returned == heap[ret].items
    IN /\ Len(returned) = Len(given)
       /\ \A i \in 1..Len(given) :
            LET record == pre[given[i]]
                enhanced == heap[returned[i]]
                final_grade == compute_final_grade(record, arg.weights)
            IN /\ DOMAIN enhanced = DOMAIN record \cup DerivedFields
               /\ \A k \in DOMAIN record \ DerivedFields : enhanced[k] = record[k]
               /\ enhanced["quiz_average"] = compute_quiz_average(record)
               /\ enhanced["final_grade"] = final_grade
               /\ enhanced["letter_grade"] = Str(letter_grade(final_grade, arg.grade_scale))

\* s2 (78, C) before s1 (87, B): the order is the input's, not the grades'
C7_Witness ==
  /\ op = "add_computed_fields"
  /\ Len(heap[ret].items) = 2
  /\ heap[heap[ret].items[1]]["student_id"] = Str("s2")
  /\ heap[heap[ret].items[1]]["final_grade"] = Num(78)
  /\ heap[heap[ret].items[1]]["letter_grade"] = Str("C")
  /\ heap[heap[ret].items[2]]["student_id"] = Str("s1")
  /\ heap[heap[ret].items[2]]["final_grade"] = Num(87)
  /\ heap[heap[ret].items[2]]["quiz_average"] = Num(84)

StatsInput == pre[arg.values].items

ExactMean(values) == RDiv(SetSum(DOMAIN values, values), Num(Len(values)))

\* the values counted from the least: the k-th is v when fewer than k values
\* are below v and at least k are not above it
KthSmallest(values, k) ==
  CHOOSE v \in {values[i] : i \in DOMAIN values} :
    /\ Cardinality({i \in DOMAIN values : RLt(values[i], v)}) < k
    /\ Cardinality({i \in DOMAIN values : RLe(values[i], v)}) >= k

ExactMedian(values) ==
  LET n == Len(values)
  IN IF n % 2 = 1 THEN KthSmallest(values, (n + 1) \div 2)
     ELSE RDiv(RAdd(KthSmallest(values, n \div 2), KthSmallest(values, n \div 2 + 1)),
               Num(2))

\* the population variance as the mean of the squares less the squared mean
ExactVariance(values) ==
  RSub(RDiv(SetSum(DOMAIN values, [i \in DOMAIN values |-> RMul(values[i], values[i])]),
            Num(Len(values))),
       RMul(ExactMean(values), ExactMean(values)))

ExactMin(values) ==
  CHOOSE v \in {values[i] : i \in DOMAIN values} : \A i \in DOMAIN values : RLe(v, values[i])

ExactMax(values) ==
  CHOOSE v \in {values[i] : i \in DOMAIN values} : \A i \in DOMAIN values : RGe(v, values[i])

\* r is x to 2 decimal places: a whole number of hundredths, at most half a
\* hundredth from x
IsRounded2(r, x) ==
  /\ r # None
  /\ (100 * r.n) % r.d = 0
  /\ RLe(RSub(r, x), Rat(1, 200))
  /\ RLe(RSub(x, r), Rat(1, 200))

\* r is the square root of x to 2 decimal places
IsRounded2Sqrt(r, x) ==
  /\ r # None
  /\ (100 * r.n) % r.d = 0
  /\ RGe(r, Num(0))
  /\ RLe(x, RMul(RAdd(r, Rat(1, 200)), RAdd(r, Rat(1, 200))))
  /\ \/ RLe(r, Rat(1, 200))
     \/ RGe(x, RMul(RSub(r, Rat(1, 200)), RSub(r, Rat(1, 200))))

\* C10 as stated: the summary holds N, sum/N, the median, the minimum and the
\* maximum themselves, and the population standard deviation (a square root,
\* so read here to 2 decimal places); the empty collection gives count 0 and
\* unknowns.
C10_StatsExact ==
  op = "compute_stats" =>
    IF StatsInput = <<>> THEN ret = EmptyStats
    ELSE /\ ret.count = Len(StatsInput)
         /\ ret.mean = ExactMean(StatsInput)
         /\ ret.median = ExactMedian(StatsInput)
         /\ IsRounded2Sqrt(ret.std, ExactVariance(StatsInput))
         /\ ret.min = ExactMin(StatsInput)
         /\ ret.max = ExactMax(StatsInput)

\* C10, amended: the summary holds N and, each rounded to 2 decimal places,
\* sum/N, the median (the middle value, or the average of the two middle
\* values of an even count), the population standard deviation, the minimum
\* and the maximum; the empty collection gives count 0 and unknowns.
C10_StatsRounded ==
  op = "compute_stats" =>
    IF StatsInput = <<>> THEN ret = EmptyStats
    ELSE /\ ret.count = Len(StatsInput)
         /\ IsRounded2(ret.mean, ExactMean(StatsInput))
         /\ IsRounded2(ret.median, ExactMedian(StatsInput))
         /\ IsRounded2Sqrt(ret.std, ExactVariance(StatsInput))
         /\ IsRounded2(ret.min, ExactMin(StatsInput))
         /\ IsRounded2(ret.max, ExactMax(StatsInput))

\* three values: mean 1/3 -> 0.33, variance 2/9 -> std 0.47
C10_Witness ==
  /\ op = "compute_stats"
  /\ StatsInput = <<Num(1), Num(0), Num(0)>>
  /\ ret = [count |-> 3, mean |-> Rat(33, 100), median |-> Num(0),
            std |-> Rat(47, 100), min |-> Num(0), max |-> Num(1)]


(***************************************************************************)
(* Properties of compute_percentile and find_outliers                      *)
(***************************************************************************)
\* the greatest integer that is <= x
FloorOf(x) ==
  CHOOSE k \in (-Abs(x.n) - 1)..Abs(x.n) : k * x.d <= x.n /\ x.n < (k + 1) * x.d

\* sorted[lo] x (1 - w) + sorted[hi] x w for r = (p/100) x (N-1), lo =
\* floor(r), hi = min(lo+1, N-1), w = r - lo, counted on the order statistics
InterpolatedAt(values, p) ==
  LET N == Len(values)
      r == Rat(p.n * (N - 1), p.d * 100)
      lo == FloorOf(r)
      hi == IF lo + 1 < N - 1 THEN lo + 1 ELSE N - 1
      w == RSub(r, Num(lo))
  IN RAdd(RMul(KthSmallest(values, lo + 1), RSub(Num(1), w)),
          RMul(KthSmallest(values, hi + 1), w))

InRange(p) == RLe(Num(0), p) /\ RLe(p, Num(100))

\* C11: for a non-empty collection of N values and 0 <= p <= 100,
\* compute_percentile returns the linear interpolation between the order
\* statistics lo = floor(r) and hi = min(lo+1, N-1) at r = (p/100) x (N-1);
\* for an empty collection it returns unknown.
C11_Interpolation ==
  (op = "compute_percentile" /\ InRange(arg.percentile)) =>
    IF StatsInput = <<>> THEN ret = None
    ELSE ret = InterpolatedAt(StatsInput, arg.percentile)

\* [4, 0, 1, 3] at p = 40: r = 1.2, between 1 and 3, 1 x 0.8 + 3 x 0.2 = 1.4
C11_Witness ==
  /\ op = "compute_percentile"
  /\ StatsInput = <<Num(4), Num(0), Num(1), Num(3)>>
  /\ arg.percentile = Num(40)
  /\ ret = Rat(7, 5)

\* C12: for a non-empty collection and p < 0 or p > 100, compute_percentile
\* still returns a number: the call never fails.
C12_NeverFails ==
  (/\ op = "compute_percentile"
   /\ StatsInput # <<>>
   /\ ~InRange(arg.percentile))
  => ret.t = "num"

\* C13: for a collection V of odd size, the median compute_stats(V) reports
\* is compute_percentile(V, 50) rounded to 2 decimal places.
C13_MedianIsP50 ==
  (/\ op = "compute_percentile"
   /\ arg.percentile = Num(50)
   /\ Len(StatsInput) % 2 = 1)
  => /\ ret.t = "num"
     /\ compute_stats(pre, arg.values).ret.median = round2(ret)
     /\ IsRounded2(compute_stats(pre, arg.values).ret.median, ret)

\* [3, 1/8, 4]: the middle value 3 both ways
C13_Witness ==
  /\ op = "compute_percentile"
  /\ arg.percentile = Num(50)
  /\ StatsInput = <<Num(3), Rat(1, 8), Num(4)>>
  /\ ret = Num(3)
  /\ compute_stats(pre, arg.values).ret.median = Num(3)


\* sub is seq with some of its items left out
RECURSIVE IsSubsequence(_, _)
IsSubsequence(sub, seq) ==
  IF sub = <<>> THEN TRUE
  ELSE IF seq = <<>> THEN FALSE
  ELSE IF Head(sub) = Head(seq) THEN IsSubsequence(Tail(sub), Tail(seq))
  ELSE IsSubsequence(sub, Tail(seq))

Occurrences(seq, v) == Cardinality({i \in DOMAIN seq : seq[i] = v})

\* C14: with either method find_outliers returns a sub-sequence of V: its
\* values occur in V and keep their input order, a returned value comes once
\* per occurrence in V, and fewer than 4 values give the empty result.
C14_Subsequence ==
  op = "find_outliers" =>
    /\ IsSubsequence(ret, StatsInput)
    /\ \A i \in DOMAIN ret : Occurrences(ret, ret[i]) = Occurrences(StatsInput, ret[i])
    /\ Len(StatsInput) < 4 => ret = <<>>

\* a high value before a low one before the high one again, all three outside
\* the bounds of a cluster at 1
C14_Witness ==
  /\ op = "find_outliers"
  /\ arg.method = "iqr"
  /\ Len(StatsInput) = SpikeLen
  /\ ret = <<Num(4), Num(0), Num(4)>>


(***************************************************************************)
(* Properties of the cohort functions                                      *)
(***************************************************************************)
\* the records handed to a cohort function, as they were before the call
CohortInput == [i \in DOMAIN pre[arg.records].items |-> pre[pre[arg.records].items[i]]]

ClosedLetters == {"A", "B", "C", "D", "F"}

\* the places of the cohort whose record carries this letter_grade
WithLetter(l) ==
  {i \in DOMAIN CohortInput :
     "letter_grade" \in DOMAIN CohortInput[i] /\ CohortInput[i]["letter_grade"] = Str(l)}

\* C15: grade_distribution returns a mapping with exactly the keys A, B, C,
\* D, F, N/A; each of A..F counts the records with that letter_grade, and N/A
\* counts the records whose letter_grade is N/A, is missing, or is outside
\* the closed set.
C15_Distribution ==
  op = "grade_distribution" =>
    /\ DOMAIN ret = ClosedLetters \cup {"N/A"}
    /\ \A l \in ClosedLetters : ret[l] = Cardinality(WithLetter(l))
    /\ ret["N/A"] =
         Cardinality(DOMAIN CohortInput \ UNION {WithLetter(l) : l \in ClosedLetters})

\* a record without letter_grade, one with the letter E and one with F
C15_Witness ==
  /\ op = "grade_distribution"
  /\ Len(CohortInput) = 3
  /\ "letter_grade" \notin DOMAIN CohortInput[1]
  /\ Get(CohortInput[2], "letter_grade") = Str("E")
  /\ Get(CohortInput[3], "letter_grade") = Str("F")
  /\ ret = [EmptyDistribution EXCEPT !["N/A"] = 2, !["F"] = 1]

\* the letters A, A, B, C, F, one per record
FiveLetters ==
  /\ Len(CohortInput) = 5
  /\ [i \in 1..5 |-> Get(CohortInput[i], "letter_grade")]
       = <<Str("A"), Str("A"), Str("B"), Str("C"), Str("F")>>

\* C16 as stated: the letters [A, A, B, C, F] yield
\* {A:2, B:1, C:1, D:0, F:0, N/A:0}.
C16_FiveLettersNoF ==
  (op = "grade_distribution" /\ FiveLetters) =>
    ret = ("A" :> 2) @@ ("B" :> 1) @@ ("C" :> 1) @@ ("D" :> 0) @@ ("F" :> 0)
            @@ ("N/A" :> 0)

\* C16, amended: the letters [A, A, B, C, F] yield
\* {A:2, B:1, C:1, D:0, F:1, N/A:0}.
C16_FiveLetters ==
  (op = "grade_distribution" /\ FiveLetters) =>
    ret = ("A" :> 2) @@ ("B" :> 1) @@ ("C" :> 1) @@ ("D" :> 0) @@ ("F" :> 1)
            @@ ("N/A" :> 0)

C16_Witness ==
  /\ op = "grade_distribution"
  /\ FiveLetters
  /\ ret["A"] = 2
  /\ ret["F"] = 1


\* the addresses of the records handed to a cohort function
CohortRefs == pre[arg.records].items

\* what the record at a place of the cohort has for final_grade
GradeAt(i) == Get(CohortInput[i], "final_grade")

\* the k-th least member of a set of places
NthOf(S, k) == CHOOSE i \in S : Cardinality({j \in S : j <= i}) = k

\* the places whose final_grade is known and strictly below the threshold
PlacesAtRisk(threshold) ==
  {i \in DOMAIN CohortInput : GradeAt(i) # None /\ RLt(GradeAt(i), threshold)}

\* C17: identify_at_risk returns exactly the records whose final_grade is
\* known and strictly less than the threshold, in their input order; a record
\* whose final_grade equals the threshold or is unknown is never returned.
C17_AtRisk ==
  op = "identify_at_risk" =>
    /\ Len(ret) = Cardinality(PlacesAtRisk(arg.threshold))
    /\ \A k \in DOMAIN ret : ret[k] = CohortRefs[NthOf(PlacesAtRisk(arg.threshold), k)]
    /\ \A k \in DOMAIN ret :
         /\ Get(heap[ret[k]], "final_grade") # None
         /\ Get(heap[ret[k]], "final_grade") # arg.threshold

\* the test's cohort, grades 55, 75, 58, 85 and threshold 60: records 1 and 3
C17_Witness ==
  /\ op = "identify_at_risk"
  /\ arg.threshold = Num(60)
  /\ [i \in DOMAIN CohortInput |-> GradeAt(i)] = <<Num(55), Num(75), Num(58), Num(85)>>
  /\ ret = <<CohortRefs[1], CohortRefs[3]>>
  /\ heap[ret[1]]["student_id"] = Str("1")
  /\ heap[ret[2]]["student_id"] = Str("3")

\* C18: section_comparison groups every record whose section is unknown, the
\* field absent or holding None, under the key 'Unknown': no unknown section
\* appears as a key of its own.
C18_UnknownSection ==
  op = "section_comparison" =>
    /\ None \notin DOMAIN ret
    /\ (\E i \in DOMAIN CohortInput : Get(CohortInput[i], "section") = None)
         => Str("Unknown") \in DOMAIN ret

\* the places with a known final_grade
PlacesGraded == {i \in DOMAIN CohortInput : GradeAt(i) # None}

\* the place i comes before the place j in the ranking: a higher grade, or
\* the same grade and earlier in the input
RankedBefore(i, j) ==
  \/ RGt(GradeAt(i), GradeAt(j))
  \/ GradeAt(i) = GradeAt(j) /\ i < j

RankOf(i) == 1 + Cardinality({j \in PlacesGraded : RankedBefore(j, i)})

\* C19: top_performers returns only records with a known final_grade, by
\* final_grade descending, records of equal grade in their input order, cut
\* to the first n.
C19_TopPerformers ==
  op = "top_performers" =>
    /\ Len(ret) = Min(arg.n, Cardinality(PlacesGraded))
    /\ \A k \in DOMAIN ret :
         \E i \in PlacesGraded : RankOf(i) = k /\ ret[k] = CohortRefs[i]

\* grades 55, 75, 75 and n = 2: the two at 75, the earlier one first
C19_Witness ==
  /\ op = "top_performers"
  /\ arg.n = 2
  /\ [i \in DOMAIN CohortInput |-> GradeAt(i)] = <<Num(55), Num(75), Num(75)>>
  /\ ret = <<CohortRefs[2], CohortRefs[3]>>


\* the records add_computed_fields has produced: the list it returns, and the
\* cohort the caller goes on with
Produced ==
  IF op = "add_computed_fields" THEN [k \in DOMAIN heap[ret].items |-> heap[heap[ret].items[k]]]
  ELSE IF arg.enriched THEN CohortInput
  ELSE <<>>

\* section_comparison of the cohort without its records of unknown final_grade
ComparisonOfGraded ==
  LET Graded_(r) == Get(pre[r], "final_grade") # None
  IN section_comparison(Append(pre, List(SelectSeq(CohortRefs, Graded_))),
                        Len(pre) + 1).ret

\* C20: in a collection produced by add_computed_fields every record whose
\* final_grade is unknown has letter_grade 'N/A', is returned neither by
\* identify_at_risk nor by top_performers, and adds no value to the
\* statistics of any group of section_comparison: each group's summary is
\* the one the cohort gives without these records, and the empty summary for
\* a group that has no other record.
C20_UnknownPropagates ==
  /\ \A k \in DOMAIN Produced :
       Produced[k]["final_grade"] = None => Produced[k]["letter_grade"] = Str("N/A")
  /\ (arg.enriched /\ op \in {"identify_at_risk", "top_performers"}) =>
       \A k \in DOMAIN ret : heap[ret[k]]["final_grade"] # None
  /\ (arg.enriched /\ op = "section_comparison") =>
       \A section \in DOMAIN ret :
         ret[section] = IF section \in DOMAIN ComparisonOfGraded
                          THEN ComparisonOfGraded[section] ELSE EmptyStats

\* s1 (section A, 87), s3 (section A, no midterm) and s4 (no exams): section
\* A counts one grade and s4's section none
C20_Witness ==
  /\ arg.enriched
  /\ op = "section_comparison"
  /\ [i \in DOMAIN CohortInput |-> GradeAt(i)] = <<Num(87), None, None>>
  /\ Get(CohortInput[2], "letter_grade") = Str("N/A")
  /\ Get(CohortInput[2], "section") = Str("A")
  /\ DOMAIN ret = {Str("A"), Str("")}
  /\ ret[Str("A")].count = 1
  /\ ret[Str("A")].mean = Num(87)
  /\ ret[Str("")] = EmptyStats


(***************************************************************************)
(* Properties of the enrichment under particular weights                   *)
(***************************************************************************)
\* the records add_computed_fields was handed and the ones it returned
Enriched == [k \in DOMAIN heap[ret].items |-> heap[heap[ret].items[k]]]

\* no weight on quizzes and attendance, weight 1 split between the exams
ExamsOnly == Weights(Num(0), Rat(1, 2), Rat(1, 2), Num(0))

BothExams(record) == Get(record, "midterm") # None /\ Get(record, "final") # None

\* C21: with weights quizzes = 0, attendance = 0, midterm = final = 0.5 a
\* record with both exams gets final_grade = (midterm + final) / 2, whatever
\* its quiz scores and attendance are, from compute_final_grade and from the
\* enrichment alike.
C21_SimpleAverage ==
  /\ (op = "compute_final_grade" /\ arg.weights = ExamsOnly /\ BothExams(arg.record))
       => /\ ret # None
          /\ RMul(ret, Num(2)) = RAdd(arg.record["midterm"], arg.record["final"])
  /\ (op = "add_computed_fields" /\ arg.weights = ExamsOnly)
       => \A k \in DOMAIN Enriched :
            BothExams(CohortInput[k])
              => /\ Enriched[k]["final_grade"] # None
                 /\ RMul(Enriched[k]["final_grade"], Num(2))
                      = RAdd(CohortInput[k]["midterm"], CohortInput[k]["final"])

\* s1 with all quizzes and attendance known, s2 with none: (85 + 88) / 2 and
\* (70 + 84) / 2
C21_Witness ==
  /\ op = "add_computed_fields"
  /\ arg.weights = ExamsOnly
  /\ Len(Enriched) = 2
  /\ Enriched[1]["quiz_average"] = Num(84)
  /\ Get(Enriched[1], "attendance_percent") = Num(95)
  /\ Enriched[1]["final_grade"] = Rat(173, 2)
  /\ Enriched[2]["quiz_average"] = None
  /\ Enriched[2]["final_grade"] = Num(77)


\* C23: when the weights of the known components sum to zero,
\* compute_final_grade returns unknown rather than failing, and
\* add_computed_fields gives that record final_grade unknown and
\* letter_grade 'N/A'.
C23_ZeroWeightUnknown ==
  /\ (/\ op = "compute_final_grade"
      /\ BothExams(arg.record)
      /\ KnownWeight(arg.record, arg.weights) = Num(0))
       => ret = None
  /\ op = "add_computed_fields"
       => \A k \in DOMAIN Enriched :
            (/\ BothExams(CohortInput[k])
             /\ KnownWeight(CohortInput[k], arg.weights) = Num(0))
              => /\ Enriched[k]["final_grade"] = None
                 /\ Enriched[k]["letter_grade"] = Str("N/A")

\* s1, every component known, under four zero weights
C23_Witness ==
  /\ op = "add_computed_fields"
  /\ arg.weights = Weights(Num(0), Num(0), Num(0), Num(0))
  /\ Len(Enriched) >= 1
  /\ Cardinality(KnownComponents(CohortInput[1])) = 4
  /\ Enriched[1]["final_grade"] = None
  /\ Enriched[1]["letter_grade"] = Str("N/A")


\* what compute_improvement gives for the record, written out: unknown
\* without a midterm or a final or with a midterm of 0, else the percentage
IsImprovementOf(value, record) ==
  LET midterm == Get(record, "midterm")
      final == Get(record, "final")
  IN IF midterm = None \/ final = None THEN value = None
     ELSE IF midterm = Num(0) THEN value = None
     ELSE /\ value # None
          /\ RMul(value, midterm) = RMul(RSub(final, midterm), Num(100))

HasImprovement(record) ==
  /\ "improvement" \in DOMAIN record
  /\ IsImprovementOf(record["improvement"], record)

LowerFence(values) ==
  LET Q1 == InterpolatedAt(values, Num(25))
      Q3 == InterpolatedAt(values, Num(75))
  IN RSub(Q1, RMul(Rat(3, 2), RSub(Q3, Q1)))

UpperFence(values) ==
  LET Q1 == InterpolatedAt(values, Num(25))
      Q3 == InterpolatedAt(values, Num(75))
  IN RAdd(Q3, RMul(Rat(3, 2), RSub(Q3, Q1)))

\* the places of a list whose value satisfies a test, as the list of values
\* in their order
ValuesAt(values, places) ==
  [k \in 1..Cardinality(places) |-> values[NthOf(places, k)]]

FartherThanTwo(values) ==
  {i \in DOMAIN values :
     RGt(RMul(RSub(values[i], ExactMean(values)), RSub(values[i], ExactMean(values))),
         RMul(Num(4), ExactVariance(values)))}

\* C25: with the zscore method and at least 4 values, find_outliers returns
\* nothing when the population standard deviation is 0 and otherwise exactly
\* the values v with |v - mean| / std > 2, mean and std unrounded.
C25_ZscoreRule ==
  (op = "find_outliers" /\ arg.method = "zscore" /\ Len(StatsInput) >= 4) =>
    IF ExactVariance(StatsInput) = Num(0) THEN ret = <<>>
    ELSE ret = ValuesAt(StatsInput, FartherThanTwo(StatsInput))

\* C29: with the zscore method find_outliers returns the empty list for every
\* collection of exactly 4 or 5 values; a collection must have 6 values for
\* the method to report one.
C29_SmallSamplesEmpty ==
  (op = "find_outliers" /\ arg.method = "zscore" /\ Len(StatsInput) \in {4, 5}) =>
    ret = <<>>

\* the key section_comparison files the record at a place under
SectionKeyAt(i) == GetDefault(CohortInput[i], "section", Str("Unknown"))

\* the places of a section whose final_grade is known
PlacesGradedIn(key) == {i \in PlacesGraded : SectionKeyAt(i) = key}

\* the known final_grade values of a section, in input order
GradesIn(key) ==
  [k \in 1..Cardinality(PlacesGradedIn(key)) |-> GradeAt(NthOf(PlacesGradedIn(key), k))]

\* C26: section_comparison returns one entry per distinct section key of the
\* input, each equal to compute_stats of the known final_grade values of that
\* section's records; a section whose records all have an unknown final_grade
\* is present with count 0 and every other field unknown.
C26_PerSection ==
  op = "section_comparison" =>
    /\ DOMAIN ret = {SectionKeyAt(i) : i \in DOMAIN CohortInput}
    /\ \A key \in DOMAIN ret :
         /\ ret[key] = compute_stats(Append(pre, List(GradesIn(key))), Len(pre) + 1).ret
         /\ PlacesGradedIn(key) = {} => ret[key] = EmptyStats

\* a section with two grades next to a section whose only record has none
C26_Witness ==
  /\ op = "section_comparison"
  /\ Len(CohortInput) = 3
  /\ DOMAIN ret = {Str("B"), Str("Unknown")}
  /\ ret[Str("Unknown")] = EmptyStats
  /\ ret[Str("B")].count = 2
  /\ ret[Str("B")].mean = Num(75)

ScoreFields ==
  {"quiz1", "quiz2", "quiz3", "quiz4", "quiz5", "midterm", "final", "attendance_percent"}

\* every raw score of the record is unknown or a number of [0,100]
ScoresInRange(record) ==
  \A f \in ScoreFields :
    Get(record, f) # None => RGe(Get(record, f), Num(0)) /\ RLe(Get(record, f), Num(100))

NonNegative(weights) == \A c \in DOMAIN weights : RGe(weights[c], Num(0))

InRangeChoices == {p \in PercentileChoices : InRange(p)}

====
